---------------------------- MODULE Spec2Model ----------------------------
(***************************************************************************)
(* The skill repository of pg-aiguide (the skillutils module): discovery   *)
(* of skill directories, manifest parsing, the single-flight load cache,   *)
(* the path validator and the content resolver.                            *)
(*                                                                         *)
(* Strings are sequences of tokens.  A token is one character ("/", ".",   *)
(* ":", "-", "_", " ", a letter) or one of the words the code compares     *)
(* with ("SKILL.md", "scripts", "references", "assets").  No word holds    *)
(* two adjacent dots, a slash or a colon, and none starts or ends with a   *)
(* dot, so substring tests on "..", "/" and ":" are tests on tokens.       *)
(***************************************************************************)
EXTENDS Naturals, Sequences, FiniteSets, TLC

VARIABLES
    disk,         \* the storage collaborator: the skills root and what it holds
    changes,      \* how many times the storage was changed from outside
    cache,        \* skillContentCache (line 38): cache key -> content
    slot,         \* skillMapPromise (line 39): 0 for null, or the pass whose promise it is
    passes,       \* the doLoadSkills activations, in start order, each with its promise
    loads,        \* the loadSkills calls made from outside, in call order
    reads,        \* the viewSkillContent calls, in call order
    skills,       \* the module's export `skills` (line 278)
    ready,        \* the module's top-level await has completed
    views,        \* the view_skill requests (apis/viewSkill.ts), in call order
    reqPath,      \* validator development: the requested path
    verdict,      \* validator development: validateSkillPath's answer for it
    rawName,      \* parser development: the name a manifest declares
    regName,      \* parser development: what parseSkillFile makes of it
    script,       \* the upstream check script: its inputs, position and exit
    scan,         \* scanner development: a skill directory and scanSkillDirectory's locals
    keys          \* cache key development: two manifests' names and what they register as

sysVars == <<disk, changes, cache, slot, passes, loads, reads, skills, ready, views>>

pathVars == <<reqPath, verdict, rawName, regName, script, scan, keys>>

vars == <<disk, changes, cache, slot, passes, loads, reads, skills, ready, views, reqPath,
          verdict, rawName, regName, script, scan, keys>>

-----------------------------------------------------------------------------
(* Program constants (part_000 lines 13-15) *)

SKILL_MAIN_FILE == <<"SKILL.md">>

ALLOWED_SKILL_SUBDIRS == <<"scripts", "references", "assets">>

SubdirSet == {ALLOWED_SKILL_SUBDIRS[i] : i \in 1..Len(ALLOWED_SKILL_SUBDIRS)}

-----------------------------------------------------------------------------
(* Generic string helpers *)

Last(s) == s[Len(s)]

Front(s) == SubSeq(s, 1, Len(s) - 1)

\* String.prototype.includes('..'): two adjacent dot characters
IncludesDotDot(s) == \E i \in 1..(Len(s) - 1) : s[i] = "." /\ s[i + 1] = "."

\* String.prototype.includes(':')
IncludesColon(s) == \E i \in 1..Len(s) : s[i] = ":"

\* String.prototype.startsWith('/')
StartsWithSlash(s) == Len(s) > 0 /\ s[1] = "/"

\* String.prototype.split('/'): the segments between the slashes, empty ones kept
RECURSIVE SplitFrom(_, _, _)
SplitFrom(s, i, cur) ==
    IF i > Len(s) THEN <<cur>>
    ELSE IF s[i] = "/" THEN <<cur>> \o SplitFrom(s, i + 1, <<>>)
    ELSE SplitFrom(s, i + 1, Append(cur, s[i]))

SplitSlash(s) == SplitFrom(s, 1, <<>>)

\* Array.prototype.join('/')
RECURSIVE JoinSlash(_)
JoinSlash(segs) ==
    IF Len(segs) = 0 THEN <<>>
    ELSE IF Len(segs) = 1 THEN segs[1]
    ELSE segs[1] \o <<"/">> \o JoinSlash(Tail(segs))

-----------------------------------------------------------------------------
(* path.normalize (POSIX), as node:path computes it, segment by segment:   *)
(* empty and "." segments are dropped, ".." removes the segment before it  *)
(* unless there is none or it is ".." itself, in which case a relative     *)
(* path keeps the "..".                                                    *)

DotSeg == <<".">>

DotDotSeg == <<".", ".">>

RECURSIVE normalizeString(_, _, _)
normalizeString(segs, allowAboveRoot, res) ==
    IF Len(segs) = 0 THEN res
    ELSE LET seg == Head(segs)
             rest == Tail(segs)
         IN  IF seg = <<>> \/ seg = DotSeg
                 THEN normalizeString(rest, allowAboveRoot, res)
             ELSE IF seg = DotDotSeg
                 THEN IF Len(res) > 0 /\ Last(res) # DotDotSeg
                          THEN normalizeString(rest, allowAboveRoot, Front(res))
                      ELSE IF allowAboveRoot
                          THEN normalizeString(rest, allowAboveRoot, Append(res, DotDotSeg))
                      ELSE normalizeString(rest, allowAboveRoot, res)
             ELSE normalizeString(rest, allowAboveRoot, Append(res, seg))

normalize(path) ==
    IF Len(path) = 0 THEN <<".">>
    ELSE LET isAbsolute == path[1] = "/"
             trailingSeparator == Last(path) = "/"
             body == JoinSlash(normalizeString(SplitSlash(path), ~isAbsolute, <<>>))
         IN  IF Len(body) = 0
                 THEN IF isAbsolute THEN <<"/">>
                      ELSE IF trailingSeparator THEN <<".", "/">> ELSE <<".">>
             ELSE (IF isAbsolute THEN <<"/">> ELSE <<>>)
                  \o body
                  \o (IF trailingSeparator THEN <<"/">> ELSE <<>>)

-----------------------------------------------------------------------------
(* validateSkillPath (part_000 lines 106-144).  The answer is "ok" or the  *)
(* rejection reason.                                                       *)

ReasonAbsolute == "Absolute paths not allowed"

ReasonTraversal == "Path traversal not allowed"

ReasonShape == "Path must be SKILL.md or within: scripts, references, assets"

\* the guard of line 118
TraversalBlocked(normalized) == IncludesDotDot(normalized)

\* lines 128-138
InAllowedSubdir(normalized) ==
    LET parts == SplitSlash(normalized)
    IN  Len(parts) = 2 /\ parts[1] \in {<<sd>> : sd \in SubdirSet}

validateSkillPath(requestedPath) ==
    LET normalized == normalize(requestedPath)
    IN  IF StartsWithSlash(requestedPath) \/ IncludesColon(requestedPath)
            THEN ReasonAbsolute
        ELSE IF TraversalBlocked(normalized) THEN ReasonTraversal
        ELSE IF normalized = SKILL_MAIN_FILE THEN "ok"
        ELSE IF InAllowedSubdir(normalized) THEN "ok"
        ELSE ReasonShape

-----------------------------------------------------------------------------
(* Manifest parser: parseSkillFile (part_000 lines 44-72) with the         *)
(* zSkillMatter schema (lines 19-23).  A main file's text is a front       *)
(* matter block (one token naming the manifest it holds) followed by the   *)
(* body's characters; a text with no front matter block yields no data.    *)

IsSpace(c) == c = " "

\* String.prototype.toLowerCase, per character
LowerChar(c) == IF c = "A" THEN "a" ELSE IF c = "B" THEN "b" ELSE c

\* the character class [a-z0-9-_]; the words "scripts", "references" and "assets"
\* are runs of lower-case letters
LowerAllowed == {"a", "b", "c", "0", "1", "-", "_"} \cup SubdirSet

\* the character class [a-zA-Z0-9-_]
NameAllowed == LowerAllowed \cup {"A", "B"}

\* /^[a-zA-Z0-9-_]+$/.test(name)
NameIsValid(name) == Len(name) > 0 /\ \A i \in 1..Len(name) : name[i] \in NameAllowed

RECURSIVE TrimLeft(_)
TrimLeft(s) == IF Len(s) > 0 /\ IsSpace(s[1]) THEN TrimLeft(Tail(s)) ELSE s

RECURSIVE TrimRight(_)
TrimRight(s) == IF Len(s) > 0 /\ IsSpace(Last(s)) THEN TrimRight(Front(s)) ELSE s

\* String.prototype.trim
Trim(s) == TrimRight(TrimLeft(s))

toLowerCase(s) == [i \in 1..Len(s) |-> LowerChar(s[i])]

\* the length of the longest prefix of s, from position i, made of characters in cls
RECURSIVE RunLen(_, _, _)
RunLen(s, i, cls) == IF i <= Len(s) /\ s[i] \in cls THEN 1 + RunLen(s, i + 1, cls) ELSE 0

\* .replace(/\s+/g, '-')
RECURSIVE ReplaceSpaceRuns(_)
ReplaceSpaceRuns(s) ==
    IF Len(s) = 0 THEN <<>>
    ELSE IF IsSpace(s[1])
        THEN <<"-">> \o ReplaceSpaceRuns(SubSeq(s, RunLen(s, 1, {" "}) + 1, Len(s)))
    ELSE <<s[1]>> \o ReplaceSpaceRuns(Tail(s))

\* .replace(/[^a-z0-9-_]/g, '_')
ReplaceDisallowed(s) == [i \in 1..Len(s) |-> IF s[i] \in LowerAllowed THEN s[i] ELSE "_"]

\* .replace(/-[-_]+/g, '-') with first = "-", .replace(/_[_-]+/g, '_') with first = "_"
RECURSIVE CollapseRuns(_, _)
CollapseRuns(s, first) ==
    IF Len(s) = 0 THEN <<>>
    ELSE IF s[1] = first /\ RunLen(s, 2, {"-", "_"}) > 0
        THEN <<first>> \o CollapseRuns(SubSeq(s, RunLen(s, 2, {"-", "_"}) + 2, Len(s)), first)
    ELSE <<s[1]>> \o CollapseRuns(Tail(s), first)

\* .replace(/(^[-_]+)|([-_]+$)/g, '')
RECURSIVE StripRight(_)
StripRight(s) == IF Len(s) > 0 /\ Last(s) \in {"-", "_"} THEN StripRight(Front(s)) ELSE s

StripEnds(s) == StripRight(SubSeq(s, RunLen(s, 1, {"-", "_"}) + 1, Len(s)))

\* lines 55-61
NormalizeName(name) ==
    StripEnds(CollapseRuns(CollapseRuns(
        ReplaceDisallowed(ReplaceSpaceRuns(toLowerCase(name))), "-"), "_"))

\* the manifests the main files of the model hold
FrontMatterTokens == {"fm1", "fm2", "fm3", "fmBad"}

NoData == [hasName |-> FALSE, name |-> <<>>, hasDescription |-> FALSE,
           description |-> "", metadata |-> "null"]

FrontMatterData(tok) ==
    CASE tok = "fm1" -> [hasName |-> TRUE, name |-> <<"a", "-", "b">>,
                         hasDescription |-> TRUE, description |-> "D1", metadata |-> "M1"]
      [] tok = "fm2" -> [hasName |-> TRUE, name |-> <<"A", " ", "b">>,
                         hasDescription |-> TRUE, description |-> "D2", metadata |-> "null"]
      [] tok = "fm3" -> [hasName |-> TRUE, name |-> <<" ", "c">>,
                         hasDescription |-> TRUE, description |-> "", metadata |-> "null"]
      [] OTHER -> [NoData EXCEPT !.hasDescription = TRUE, !.description = "D0"]

\* gray-matter: the front matter's data and the text after it (line 50)
matter(fileContent) ==
    IF Len(fileContent) > 0 /\ fileContent[1] \in FrontMatterTokens
        THEN [data |-> FrontMatterData(fileContent[1]), content |-> Tail(fileContent)]
    ELSE [data |-> NoData, content |-> fileContent]

\* zSkillMatter.parse succeeds (line 51): name a non-empty string once trimmed,
\* description a string
zSkillMatterOk(data) == data.hasName /\ Len(Trim(data.name)) >= 1 /\ data.hasDescription

\* lines 54-66 left out: the trimmed name is registered as declared
RegisteredNameAsDeclared(name) == Trim(name)

\* lines 54-66 without the test of line 54: every name is normalized
RegisteredNameNormalized(name) == NormalizeName(Trim(name))

\* lines 51-66: the name zSkillMatter.parse yields (trimmed), normalized unless it
\* passes the test of line 54
RegisteredName(name) ==
    LET trimmed == Trim(name)
    IN  IF NameIsValid(trimmed) THEN trimmed ELSE NormalizeName(trimmed)

\* parseSkillFile: ok = FALSE stands for the exception zSkillMatter.parse throws
parseSkillFile(fileContent) ==
    LET m == matter(fileContent)
    IN  [ok |-> zSkillMatterOk(m.data),
         name |-> RegisteredName(m.data.name),
         description |-> m.data.description,
         metadata |-> m.data.metadata,
         content |-> Trim(m.content)]

-----------------------------------------------------------------------------
(* The storage collaborator.  The skills root holds the entries Dirs; a    *)
(* directory holds a main file and the three subdirectories.               *)

Dirs == {"d1", "d2"}

\* line 11
skillsDir == <<"/", "skills">>

\* path.join: the parts joined by "/", then normalized
join(a, b) == normalize(a \o <<"/">> \o b)

File(text) == [exists |-> TRUE, text |-> text]

NoFile == [exists |-> FALSE, text |-> <<>>]

Listing(entries) == [exists |-> TRUE, entries |-> entries]

NoListing == [exists |-> FALSE, entries |-> <<>>]

FileEntry(name, text) == [name |-> name, isFile |-> TRUE, text |-> text]

DirEntry(name) == [name |-> name, isFile |-> FALSE, text |-> <<>>]

EmptyMap == <<>>

MapSet(m, k, v) == [x \in (DOMAIN m) \cup {k} |-> IF x = k THEN v ELSE m[x]]

\* the directory of the root a path of four or five segments lies in, if any
DirOf(segs) ==
    IF Len(segs) >= 3 /\ segs[1] = <<>> /\ segs[2] = <<"skills">>
       /\ \E d \in Dirs : segs[3] = <<d>>
        THEN {d \in Dirs : segs[3] = <<d>>}
    ELSE {}

\* fs.readFile(fullPath): the file there, or NoFile for the error it throws
StorageReadFile(dk, fullPath) ==
    LET segs == SplitSlash(fullPath)
        ds == {d \in DirOf(segs) : dk.dirs[d].kind = "dir"}
    IN  IF ds = {} THEN NoFile
        ELSE LET dir == dk.dirs[CHOOSE d \in ds : TRUE]
             IN  IF Len(segs) = 4 /\ segs[4] = SKILL_MAIN_FILE THEN dir.main
                 ELSE IF Len(segs) = 5 /\ \E sd \in SubdirSet : segs[4] = <<sd>>
                     THEN LET lst == dir.sub[CHOOSE sd \in SubdirSet : segs[4] = <<sd>>]
                              hit == {k \in 1..Len(lst.entries) :
                                         lst.entries[k].name = segs[5] /\ lst.entries[k].isFile}
                          IN  IF lst.exists /\ hit # {}
                                  THEN File(lst.entries[CHOOSE k \in hit : TRUE].text)
                              ELSE NoFile
                 ELSE NoFile

\* fs.readdir(<skill directory>/<subdir>, {withFileTypes}): NoListing for the error
StorageReaddir(dk, fullPath) ==
    LET segs == SplitSlash(fullPath)
        ds == {d \in DirOf(segs) : dk.dirs[d].kind = "dir"}
    IN  IF ds # {} /\ Len(segs) = 4 /\ \E sd \in SubdirSet : segs[4] = <<sd>>
            THEN dk.dirs[CHOOSE d \in ds : TRUE].sub[CHOOSE sd \in SubdirSet : segs[4] = <<sd>>]
        ELSE NoListing

\* fs.readdir(skillsDir, {withFileTypes}): the entries of the root, in the order
\* the storage lists them
RootEntries(dk) ==
    LET present == SelectSeq(dk.order, LAMBDA d : dk.dirs[d].kind # "none")
    IN  [k \in 1..Len(present) |->
            [name |-> <<present[k]>>, isDirectory |-> dk.dirs[present[k]].kind = "dir"]]

-----------------------------------------------------------------------------
(* Directory scanner: one readdir of scanSkillDirectory (lines 82-95)      *)

\* lines 86-91: "<subdir>/<entry.name>" for the entries that are files, in order
RECURSIVE FileNames(_, _)
FileNames(subdir, entries) ==
    IF Len(entries) = 0 THEN <<>>
    ELSE (IF Head(entries).isFile
              THEN << <<subdir, "/">> \o Head(entries).name >>
          ELSE <<>>)
         \o FileNames(subdir, Tail(entries))

\* lines 86-91 without the test of line 87: every entry is listed
ScanStepUnfiltered(availableFiles, subdir, lst) ==
    IF lst.exists
        THEN availableFiles
             \o [k \in 1..Len(lst.entries) |-> <<subdir, "/">> \o lst.entries[k].name]
    ELSE availableFiles

\* availableFiles after the readdir of subdir answered lst (a failure adds nothing)
ScanStep(availableFiles, subdir, lst) ==
    IF lst.exists THEN availableFiles \o FileNames(subdir, lst.entries) ELSE availableFiles

-----------------------------------------------------------------------------
(* Bounds of the repository development *)

\* how many calls from outside (after the module's own) and storage changes a
\* behaviour holds
MaxEvents == 3

-----------------------------------------------------------------------------
(* loadSkills and doLoadSkills (lines 149-231).  A pass is one activation  *)
(* of doLoadSkills together with the promise loadSkills stores for it      *)
(* (doLoadSkills().catch(...)).  Between two awaits a pass runs without    *)
(* interruption, so each action below is one continuation.                 *)

NoParse == [ok |-> FALSE, name |-> <<>>, description |-> "", metadata |-> "null",
            content |-> <<>>]

\* pc: the await the pass is suspended at; state, value: its promise;
\* entries, i: dirEntries and the loop's position; parsed, sub, availableFiles:
\* loadLocalPath's and scanSkillDirectory's locals; skills: the map being built.
\* History: rootFailed, threw, alone (no other pass and no storage read of a
\* content was under way when it began), chg0 (the storage changes made before it began).
NewPass(alone, chg0) ==
    [pc |-> "readdir", state |-> "pending", value |-> EmptyMap,
     entries |-> <<>>, i |-> 0, parsed |-> NoParse, sub |-> 0, availableFiles |-> <<>>,
     skills |-> EmptyMap, rootFailed |-> FALSE, threw |-> FALSE,
     alone |-> alone, chg0 |-> chg0]

Settled(p) == passes[p].state # "pending"

Quiescent ==
    /\ \A p \in 1..Len(passes) : Settled(p)
    /\ \A r \in 1..Len(reads) : reads[r].pc # "io"

Events ==
    (IF loads = <<>> THEN 0 ELSE Len(loads) - 1) + Len(reads) + changes
    + Cardinality({v \in 1..Len(views) : views[v].read = 0})

\* line 220 retrying when the stored pass could not enumerate the root
StartsPassRetrying(force) == slot = 0 \/ force \/ passes[slot].rootFailed

\* line 220 without the test of force: a stored promise is always returned
StartsPassUnlessStored(force) == slot # 0 => FALSE

\* line 220 without its test: every call starts a pass
StartsPassAlways(force) == TRUE

\* line 220: a call starts a pass unless a promise is stored and force is not set
StartsPass(force) == slot = 0 \/ force

\* line 151: skillContentCache.clear()
ClearedCache(cch) == EmptyMap

\* loadSkills(force), lines 217-231, with doLoadSkills up to its first await
\* (lines 150-151 and the call of readdir on line 194); the promise returned is slot'
loadSkills(force) ==
    IF StartsPass(force)
        THEN /\ passes' = Append(passes, NewPass(Quiescent, changes))
             /\ cache' = ClearedCache(cache)
             /\ slot' = Len(passes) + 1
        ELSE UNCHANGED <<passes, cache, slot>>

\* how many forced calls and failed passes there were: a non-forced caller
\* shares its promise with the callers of the same epoch
Epoch(ls, ps) ==
    Cardinality({k \in 1..Len(ls) : ls[k].force})
    + Cardinality({k \in 1..Len(ps) : ps[k].threw})

\* a viewSkillContent call whose awaited promise is settled continues before
\* any other event is handled (promise continuations run as microtasks)
Resumable(r) == reads[r].pc = "await" /\ Settled(reads[r].promise)

MicrotaskPending == \E r \in 1..Len(reads) : Resumable(r)

\* the module's top-level `await loadSkills()` (line 278)
ModuleInit ==
    /\ ~ready
    /\ passes = <<>>
    /\ loadSkills(FALSE)
    /\ loads' = Append(loads, [force |-> FALSE, promise |-> slot', epoch |-> 0])
    /\ UNCHANGED <<disk, changes, reads, skills, ready, views, pathVars>>

\* a call of loadSkills(force) from outside the module
LoadCall(force) ==
    /\ ready
    /\ ~MicrotaskPending
    /\ Events < MaxEvents
    /\ loadSkills(force)
    /\ loads' = Append(loads, [force |-> force, promise |-> slot',
                               epoch |-> Epoch(loads, passes) + (IF force THEN 1 ELSE 0)])
    /\ UNCHANGED <<disk, changes, reads, skills, ready, views, pathVars>>

\* the next directory entry of dirEntries after position i, 0 if there is none
\* (line 196 skips the entries that are no directories)
NextDir(entries, i) ==
    LET later == {j \in (i + 1)..Len(entries) : entries[j].isDirectory}
    IN  IF later = {} THEN 0 ELSE CHOOSE j \in later : \A k \in later : j <= k

\* lines 199-203 throwing when no skill was found, past both catch blocks
ContinueFailsOnEmpty(pass) ==
    LET j == NextDir(pass.entries, pass.i)
        base == [pass EXCEPT !.parsed = NoParse, !.sub = 0, !.availableFiles = <<>>]
    IN  IF j = 0 /\ pass.skills = EmptyMap
            THEN [base EXCEPT !.pc = "done", !.state = "rejected", !.i = 0]
        ELSE IF j = 0
            THEN [base EXCEPT !.pc = "done", !.state = "fulfilled", !.value = pass.skills,
                              !.i = 0]
        ELSE [base EXCEPT !.pc = "readFile", !.i = j]

\* the loop moves on to the next directory, or doLoadSkills returns skills (line 211)
Continue(pass) ==
    LET j == NextDir(pass.entries, pass.i)
        base == [pass EXCEPT !.parsed = NoParse, !.sub = 0, !.availableFiles = <<>>]
    IN  IF j = 0
            THEN [base EXCEPT !.pc = "done", !.state = "fulfilled", !.value = pass.skills,
                              !.i = 0]
        ELSE [base EXCEPT !.pc = "readFile", !.i = j]

\* the module's export is the value the first promise is fulfilled with
Publish(p, pass) ==
    IF ~ready /\ p = 1 /\ pass.state = "fulfilled"
        THEN skills' = pass.value /\ ready' = TRUE
    ELSE UNCHANGED <<skills, ready>>

\* the root's readdir answers (line 194), or fails and the catch of lines 207-209
\* logs the error
PassReaddir(p) ==
    /\ passes[p].pc = "readdir"
    /\ ~MicrotaskPending
    /\ LET pass == IF disk.rootOk
                        THEN Continue([passes[p] EXCEPT !.entries = RootEntries(disk)])
                    ELSE [passes[p] EXCEPT !.pc = "done", !.state = "fulfilled",
                                           !.value = passes[p].skills, !.rootFailed = TRUE]
       IN  /\ passes' = [passes EXCEPT ![p] = pass]
           /\ Publish(p, pass)
    /\ UNCHANGED <<disk, changes, cache, slot, loads, reads, views, pathVars>>

\* lines 224-228 without the handler: the rejection reaches the callers
catchHandlerMissing(pass) ==
    [pass EXCEPT !.pc = "done", !.state = "rejected", !.value = EmptyMap, !.threw = TRUE]

\* the handler of lines 224-228: what becomes of the pass's promise
catchHandler(pass) ==
    [pass EXCEPT !.pc = "done", !.state = "fulfilled", !.value = EmptyMap,
                 !.threw = TRUE]

\* line 226 left out: the stored promise stays
SlotAfterFailureKept(p) == slot

\* line 226: skillMapPromise = null, whichever pass the handler belongs to
SlotAfterFailure(p) == 0

\* the root's readdir fails and an exception leaves the catch block of lines 207-209
\* too: doLoadSkills rejects, and the handler of lines 224-228 runs
PassRejects(p) ==
    /\ passes[p].pc = "readdir"
    /\ ~MicrotaskPending
    /\ ~disk.rootOk
    /\ passes' = [passes EXCEPT ![p] = catchHandler([passes[p] EXCEPT !.rootFailed = TRUE])]
    /\ slot' = SlotAfterFailure(p)
    /\ Publish(p, catchHandler(passes[p]))
    /\ UNCHANGED <<disk, changes, cache, loads, reads, views, pathVars>>

\* lines 153-162 finding no earlier skill: a later directory overrides
alreadyExistsNever(skillMap, name) == FALSE

\* alreadyExists (lines 153-162)
alreadyExists(skillMap, name) == name \in DOMAIN skillMap

\* lines 187-189 missing: the failure ends the loop in the catch of lines 207-209
onSkillFailureAborts(pass) ==
    [pass EXCEPT !.pc = "done", !.state = "fulfilled", !.value = pass.skills, !.i = 0]

\* the catch of loadLocalPath (lines 187-189): log, and go on with the loop
onSkillFailure(pass) == Continue(pass)

\* the directory the pass is loading (line 197)
CurPath(pass) == join(skillsDir, pass.entries[pass.i].name)

\* the main file's readFile answers (line 167): parse it (line 171), skip a
\* duplicate (line 173) or begin the scan (line 176, up to its first readdir)
PassReadFile(p) ==
    LET pass == passes[p]
        file == StorageReadFile(disk, join(CurPath(pass), SKILL_MAIN_FILE))
        pr == parseSkillFile(file.text)
        next == IF ~file.exists \/ ~pr.ok THEN onSkillFailure(pass)
                ELSE IF alreadyExists(pass.skills, pr.name) THEN Continue(pass)
                ELSE [pass EXCEPT !.pc = "scan", !.parsed = pr, !.sub = 1,
                                  !.availableFiles = <<SKILL_MAIN_FILE>>]
    IN  /\ pass.pc = "readFile"
        /\ ~MicrotaskPending
        /\ passes' = [passes EXCEPT ![p] = next]
        /\ Publish(p, next)
        /\ UNCHANGED <<disk, changes, cache, slot, loads, reads, views, pathVars>>

\* the cache key of line 186 and line 260
CacheKey(name, path) == name \o <<"/">> \o path

\* lines 178-186 handing the map out while it is being built
RegisterPublishing(pass, availableFiles) ==
    LET sk == [path |-> CurPath(pass), name |-> pass.parsed.name,
               description |-> pass.parsed.description,
               metadata |-> pass.parsed.metadata,
               availableFiles |-> availableFiles]
    IN  [pass EXCEPT !.skills = MapSet(@, sk.name, sk), !.state = "fulfilled",
                     !.value = MapSet(pass.skills, sk.name, sk)]

\* lines 178-186: register the skill and seed the content cache
Register(pass, availableFiles) ==
    LET sk == [path |-> CurPath(pass), name |-> pass.parsed.name,
               description |-> pass.parsed.description,
               metadata |-> pass.parsed.metadata,
               availableFiles |-> availableFiles]
    IN  [pass EXCEPT !.skills = MapSet(@, sk.name, sk)]

\* one readdir of scanSkillDirectory answers (line 85); after the last one the
\* skill is registered and its body cached (lines 178-186)
PassScan(p) ==
    LET pass == passes[p]
        subdir == ALLOWED_SKILL_SUBDIRS[pass.sub]
        avail == ScanStep(pass.availableFiles, subdir,
                          StorageReaddir(disk, join(CurPath(pass), <<subdir>>)))
        last == pass.sub = Len(ALLOWED_SKILL_SUBDIRS)
        next == IF last THEN Continue(Register(pass, avail))
                ELSE [pass EXCEPT !.sub = @ + 1, !.availableFiles = avail]
    IN  /\ pass.pc = "scan"
        /\ ~MicrotaskPending
        /\ passes' = [passes EXCEPT ![p] = next]
        /\ cache' = IF last
                        THEN MapSet(cache, CacheKey(pass.parsed.name, SKILL_MAIN_FILE),
                                    pass.parsed.content)
                    ELSE cache
        /\ Publish(p, next)
        /\ UNCHANGED <<disk, changes, slot, loads, reads, views, pathVars>>

-----------------------------------------------------------------------------
(* viewSkillContent (lines 236-275).  A call awaits loadSkills(), runs     *)
(* its checks and the cache lookup without interruption, and on a miss     *)
(* awaits readFile.                                                        *)

SkillNotFound == "Skill not found"

FileNotFound == "File not found in skill"

\* pc: "await" (line 240), "io" (line 269) or "done"; outcome, reason, content:
\* what the call returned or threw.  History: ios and sets count the call's storage
\* reads and cache writes, target is the file it read, after the calls that had
\* returned when it began, gen and quiet the passes started and whether all was at
\* rest when it returned.
NewRead(name, path, promise, epoch, after) ==
    [name |-> name, path |-> path, promise |-> promise, epoch |-> epoch, pc |-> "await",
     outcome |-> "pending", reason |-> "", content |-> <<>>, ios |-> 0, sets |-> 0,
     target |-> <<>>, after |-> after, gen |-> 0, quiet |-> FALSE]

QuietBut(r) ==
    /\ \A p \in 1..Len(passes) : Settled(p)
    /\ \A q \in 1..Len(reads) : q # r => reads[q].pc # "io"

Return(rd, r, outcome, reason, content) ==
    [rd EXCEPT !.pc = "done", !.outcome = outcome, !.reason = reason, !.content = content,
               !.gen = Len(passes), !.quiet = QuietBut(r)]

\* Array.prototype.includes
Includes(seq, x) == \E k \in 1..Len(seq) : seq[k] = x

\* line 261-262: the entry is there and is truthy (the empty string is not)
CacheHit(cch, key) == key \in DOMAIN cch /\ cch[key] # <<>>

\* lines 241-258 with only the skill looked up
GateSkillOnly(skillsMap, name, path) ==
    IF name \notin DOMAIN skillsMap THEN <<"NotFound", SkillNotFound>> ELSE <<"ok", "">>

\* lines 241-258 with the path validated before the skill is looked up
GateValidatesFirst(skillsMap, name, path) ==
    IF validateSkillPath(path) # "ok" THEN <<"InvalidPath", validateSkillPath(path)>>
    ELSE IF name \notin DOMAIN skillsMap THEN <<"NotFound", SkillNotFound>>
    ELSE IF ~Includes(skillsMap[name].availableFiles, path) THEN <<"NotFound", FileNotFound>>
    ELSE <<"ok", "">>

\* lines 241-258 without the test of availableFiles (lines 253-258)
GateNoDeclaredCheck(skillsMap, name, path) ==
    IF name \notin DOMAIN skillsMap THEN <<"NotFound", SkillNotFound>>
    ELSE IF validateSkillPath(path) # "ok" THEN <<"InvalidPath", validateSkillPath(path)>>
    ELSE <<"ok", "">>

\* lines 241-258: the checks made before the cache is looked at; "ok" or the error
Gate(skillsMap, name, path) ==
    IF name \notin DOMAIN skillsMap THEN <<"NotFound", SkillNotFound>>
    ELSE IF validateSkillPath(path) # "ok" THEN <<"InvalidPath", validateSkillPath(path)>>
    ELSE IF ~Includes(skillsMap[name].availableFiles, path) THEN <<"NotFound", FileNotFound>>
    ELSE <<"ok", "">>

\* lines 241-268, up to the call of readFile
viewSkillSync(rd, r, skillsMap, cch) ==
    LET g == Gate(skillsMap, rd.name, rd.path)
        key == CacheKey(rd.name, rd.path)
    IN  IF g[1] # "ok" THEN Return(rd, r, g[1], g[2], <<>>)
        ELSE IF CacheHit(cch, key) THEN Return(rd, r, "ok", "", cch[key])
        ELSE [rd EXCEPT !.pc = "io", !.target = join(skillsMap[rd.name].path, rd.path)]

\* a call of viewSkillContent(name, targetPath): line 240
ReadCall(name, path) ==
    /\ ready
    /\ ~MicrotaskPending
    /\ Events < MaxEvents
    /\ loadSkills(FALSE)
    /\ reads' = Append(reads, NewRead(name, path, slot', Epoch(loads, passes),
                                      {q \in 1..Len(reads) : reads[q].pc = "done"}))
    /\ UNCHANGED <<disk, changes, loads, skills, ready, views, pathVars>>

\* the awaited promise is settled: the call continues (lines 241-268)
ReadResume(r) ==
    /\ Resumable(r)
    /\ reads' = [reads EXCEPT ![r] =
                    IF passes[reads[r].promise].state = "rejected"
                        THEN Return(reads[r], r, "LoadFailed", "", <<>>)
                    ELSE viewSkillSync(reads[r], r, passes[reads[r].promise].value, cache)]
    /\ UNCHANGED <<disk, changes, cache, slot, passes, loads, skills, ready, views, pathVars>>

\* lines 269-273 with the cache written whatever readFile answered
CacheAfterReadAlways(cch, key, file) == MapSet(cch, key, file.text)

\* lines 269-273: the cache after readFile answered file for the key
CacheAfterRead(cch, key, file) == IF file.exists THEN MapSet(cch, key, file.text) ELSE cch

\* readFile answers (line 269): cache and return the content, or throw (line 273).
\* The read may fail whatever the storage holds (an I/O error).
ReadIO(r) ==
    /\ r \in 1..Len(reads)
    /\ reads[r].pc = "io"
    /\ ~MicrotaskPending
    /\ \E ioOk \in BOOLEAN :
          LET rd == [reads[r] EXCEPT !.ios = @ + 1]
              file == IF ioOk THEN StorageReadFile(disk, rd.target) ELSE NoFile
          IN  /\ cache' = CacheAfterRead(cache, CacheKey(rd.name, rd.path), file)
              /\ reads' = [reads EXCEPT ![r] =
                     IF file.exists
                         THEN Return([rd EXCEPT !.sets = @ + 1], r, "ok", "", file.text)
                     ELSE Return(rd, r, "ReadFailure", "", <<>>)]
    /\ UNCHANGED <<disk, changes, slot, passes, loads, skills, ready, views, pathVars>>

-----------------------------------------------------------------------------
(* The view_skill handler (apis/viewSkill.ts lines 71-90).  It looks the   *)
(* skill up in the module's export `skills`, calls viewSkillContent, and   *)
(* answers with the fields of the skill it looked up and the content.      *)

NoRecord == [path |-> <<>>, name |-> <<>>, description |-> "", metadata |-> "null",
             availableFiles |-> <<>>]

\* found, skill: the lookup of lines 72-76; read: the viewSkillContent call made
\* on line 80, 0 if the handler threw before.  History: slot0, the promise stored
\* when the request arrived.
NewView(name, path, found, skill, read) ==
    [name |-> name, path |-> path, found |-> found, skill |-> skill, read |-> read,
     slot0 |-> slot]

\* a view_skill request: lines 72-80, up to the await inside viewSkillContent
ViewCall(name, path) ==
    /\ ready
    /\ ~MicrotaskPending
    /\ Events < MaxEvents
    /\ IF name \notin DOMAIN skills
           THEN /\ views' = Append(views, NewView(name, path, FALSE, NoRecord, 0))
                /\ UNCHANGED <<passes, cache, slot, reads>>
       ELSE /\ loadSkills(FALSE)
            /\ reads' = Append(reads, NewRead(name, path, slot', Epoch(loads, passes),
                                              {q \in 1..Len(reads) : reads[q].pc = "done"}))
            /\ views' = Append(views, NewView(name, path, TRUE, skills[name],
                                              Len(reads) + 1))
    /\ UNCHANGED <<disk, changes, loads, skills, ready, pathVars>>

\* lines 82-89: what the handler answers once viewSkillContent has returned
Response(v) ==
    [name |-> views[v].skill.name, path |-> views[v].path,
     description |-> views[v].skill.description,
     content |-> reads[views[v].read].content,
     availableFiles |-> views[v].skill.availableFiles,
     metadata |-> views[v].skill.metadata]

-----------------------------------------------------------------------------
(* The storage's contents and the changes made to it from outside *)

MainA == <<"fm1", "x">>

MainB == <<"fm2", " ", "y", " ">>

MainC == <<"fm3">>

MainBad == <<"fmBad", "x">>

NoSubs == [sd \in SubdirSet |-> NoListing]

Dir(main, scripts, assets) ==
    [kind |-> "dir", main |-> main,
     sub |-> [sd \in SubdirSet |->
                 IF sd = "scripts" THEN scripts
                 ELSE IF sd = "assets" THEN assets ELSE NoListing]]

FileX(text) == FileEntry(<<"x">>, text)

DirFull == Dir(File(MainA), Listing(<<FileX(<<"x">>), DirEntry(<<"y">>)>>), Listing(<<>>))

DirEmptyFile == Dir(File(MainA), Listing(<<FileX(<<>>)>>), NoListing)

DirSameName == Dir(File(MainB), NoListing, NoListing)

DirEmptyBody == Dir(File(MainC), NoListing, NoListing)

DirOtherFile == Dir(File(MainC), Listing(<<FileX(<<"x">>)>>), NoListing)

DirBadManifest == Dir(File(MainBad), Listing(<<FileX(<<"x">>)>>), NoListing)

DirNoMain == Dir(NoFile, NoListing, NoListing)

Absent == [kind |-> "none", main |-> NoFile, sub |-> NoSubs]

PlainFile == [kind |-> "file", main |-> NoFile, sub |-> NoSubs]

InitDisks ==
    {[rootOk |-> ok, order |-> <<"d1", "d2">>,
      dirs |-> [d \in Dirs |-> IF d = "d1" THEN o1 ELSE o2]] :
        ok \in BOOLEAN,
        o1 \in {DirFull, DirEmptyFile},
        o2 \in {DirSameName, DirEmptyBody, DirBadManifest}}

\* what a directory of the root may be changed to
ChangeMenu(d) ==
    IF d = "d1" THEN {DirFull, DirEmptyFile, Absent}
    ELSE {DirOtherFile, DirNoMain, PlainFile}

\* a directory of the root is rewritten, removed or replaced from outside
DiskChange(d, o) ==
    /\ Events < MaxEvents
    /\ disk.dirs[d] # o
    /\ disk' = [disk EXCEPT !.dirs[d] = o]
    /\ changes' = changes + 1
    /\ UNCHANGED <<cache, slot, passes, loads, reads, skills, ready, views, pathVars>>

\* the root becomes unreadable or readable again, or lists its entries in the
\* other order
RootChange ==
    /\ Events < MaxEvents
    /\ \/ disk' = [disk EXCEPT !.rootOk = ~@]
       \/ disk' = [disk EXCEPT !.order = <<@[2], @[1]>>]
    /\ changes' = changes + 1
    /\ UNCHANGED <<cache, slot, passes, loads, reads, skills, ready, views, pathVars>>

ReqNames == {<<"a", "-", "b">>, <<"c">>}

ReqPaths == {SKILL_MAIN_FILE, <<"scripts", "/", "x">>,
             <<".", ".", "/", "d2", "/", "SKILL.md">>}

\* the paths of view_skill requests: the default, and a file of a subdirectory
ViewPaths == {SKILL_MAIN_FILE, <<"scripts", "/", "x">>}

SysInit ==
    /\ disk \in InitDisks
    /\ changes = 0
    /\ cache = EmptyMap
    /\ slot = 0
    /\ passes = <<>>
    /\ loads = <<>>
    /\ reads = <<>>
    /\ skills = EmptyMap
    /\ ready = FALSE
    /\ views = <<>>

NoName == [done |-> FALSE, ok |-> FALSE, name |-> <<>>]

\* no manifest parsed for the cache key development
NoKeys == [pc |-> "off", raw |-> <<>>, names |-> <<>>]

\* scanSkillDirectory not called
NoScan == [pc |-> "off", mainExists |-> FALSE, sub |-> NoSubs, i |-> 0, availableFiles |-> <<>>]

\* the upstream check script not run
NoRun == [pc |-> "off", config |-> "absent", inputs |-> <<>>, results |-> <<>>,
          exited |-> FALSE, code |-> 0]

Init ==
    /\ SysInit
    /\ reqPath = <<>> /\ verdict = "none"
    /\ rawName = <<>> /\ regName = NoName
    /\ script = NoRun
    /\ scan = NoScan
    /\ keys = NoKeys

Next ==
    \/ ModuleInit
    \/ \E force \in BOOLEAN : LoadCall(force)
    \/ \E p \in 1..Len(passes) : PassReaddir(p)
    \/ \E p \in 1..Len(passes) : PassRejects(p)
    \/ \E p \in 1..Len(passes) : PassReadFile(p)
    \/ \E p \in 1..Len(passes) : PassScan(p)
    \/ \E name \in ReqNames, path \in ReqPaths : ReadCall(name, path)
    \/ \E name \in ReqNames, path \in ViewPaths : ViewCall(name, path)
    \/ \E r \in 1..Len(reads) : ReadResume(r)
    \/ \E r \in 1..Len(reads) : ReadIO(r)
    \/ \E d \in Dirs : \E o \in ChangeMenu(d) : DiskChange(d, o)
    \/ RootChange

Spec == Init /\ [][Next]_vars

-----------------------------------------------------------------------------
(* Validator development: every path of at most MaxPathLen tokens, and the *)
(* paths the specification names, are validated.                           *)

MaxPathLen == 5

PathTokens == {"/", ".", ":", "x", "SKILL.md", "scripts", "references", "assets"}

BoundedPaths == UNION {[1..n -> PathTokens] : n \in 0..MaxPathLen}

EtcPasswd == <<"x", "/", "x">>

NamedPaths ==
    { <<".", ".", "/", ".", ".", "/">> \o EtcPasswd,                 \* ../../etc/passwd
      <<"/">> \o EtcPasswd,                                           \* /etc/passwd
      <<"scripts", "/", ".", ".", "/", ".", ".", "/", ".", ".", "/", "x">>, \* scripts/../../../x
      <<"SKILL.md">>,
      <<"scripts", "/", "x", ".", "x">>,                              \* scripts/a.sql
      <<"references", "/", "x", ".", "x">>,                           \* references/b.md
      <<"assets", "/", "x", ".", "x">>,                               \* assets/c.png
      <<"scripts", "/", "x", "/", "x", ".", "x">> }                   \* scripts/sub/d.sql

\* the repository at rest while paths are validated
SysIdle ==
    /\ disk = [rootOk |-> TRUE, order |-> <<"d1", "d2">>, dirs |-> [d \in Dirs |-> Absent]]
    /\ changes = 0
    /\ cache = EmptyMap
    /\ slot = 0
    /\ passes = <<>>
    /\ loads = <<>>
    /\ reads = <<>>
    /\ skills = EmptyMap
    /\ ready = FALSE
    /\ views = <<>>

PathInit ==
    /\ SysIdle
    /\ reqPath \in BoundedPaths \cup NamedPaths
    /\ verdict = "none"
    /\ rawName = <<>>
    /\ regName = NoName
    /\ script = NoRun
    /\ scan = NoScan
    /\ keys = NoKeys

Validate ==
    /\ verdict = "none"
    /\ verdict' = validateSkillPath(reqPath)
    /\ UNCHANGED <<reqPath, rawName, regName, script, scan, keys, sysVars>>

PathNext == Validate

PathSpec == PathInit /\ [][PathNext]_vars

-----------------------------------------------------------------------------
(* Parser development: every name of at most MaxNameLen characters is      *)
(* declared by a manifest and parsed.                                      *)

MaxNameLen == 4

\* "!" stands for the characters outside [a-zA-Z0-9-_] that are no whitespace
NameTokens == {"a", "A", "0", "-", "_", " ", "!"}

BoundedNames == UNION {[1..n -> NameTokens] : n \in 0..MaxNameLen}

\* the front matter data of a manifest that declares the name
DataNamed(name) ==
    [hasName |-> TRUE, name |-> name, hasDescription |-> TRUE, description |-> "D0",
     metadata |-> "null"]

NameInit ==
    /\ SysIdle
    /\ reqPath = <<>>
    /\ verdict = "none"
    /\ rawName \in BoundedNames
    /\ regName = NoName
    /\ script = NoRun
    /\ scan = NoScan
    /\ keys = NoKeys

\* parseSkillFile on a main file whose manifest declares rawName (lines 50-66)
ParseName ==
    /\ ~regName.done
    /\ regName' = [done |-> TRUE, ok |-> zSkillMatterOk(DataNamed(rawName)),
                   name |-> RegisteredName(rawName)]
    /\ UNCHANGED <<reqPath, verdict, rawName, script, scan, keys, sysVars>>

NameNext == ParseName

NameSpec == NameInit /\ [][NameNext]_vars

-----------------------------------------------------------------------------
(* The upstream check script (scripts/check-upstream-skills.ts).  A run    *)
(* reads upstream-skills.json, fetches the pinned and the current version  *)
(* of every configured skill, reports, and exits.                          *)

MaxSkills == 2

\* what a fetch answers: "fail" for a rejected fetch or a response that is not
\* ok, else the content
Fetches == {"fail", "v1", "v2"}

SkillInputs == [pinned : Fetches, current : Fetches]

\* the message of the error fetchContent throws
FetchError == "Failed to fetch"

\* checkSkill (lines 41-72): the second fetch is made only if the first succeeded
checkSkill(in) ==
    IF in.pinned = "fail" \/ in.current = "fail"
        THEN [changed |-> FALSE, hasError |-> TRUE, error |-> FetchError]
    ELSE [changed |-> in.pinned # in.current, hasError |-> FALSE, error |-> ""]

\* the truthiness of r.error (lines 107-109)
ErrorSet(r) == r.hasError /\ r.error # ""

\* lines 127-147 without the test of lines 142-144
ExitCodeIgnoringErrors(results) ==
    IF \E k \in 1..Len(results) : results[k].changed /\ ~ErrorSet(results[k]) THEN 1
    ELSE 0

\* lines 107-147: the code main exits with after the report
ExitCode(results) ==
    LET errors == SelectSeq(results, LAMBDA r : ErrorSet(r))
        changed == SelectSeq(results, LAMBDA r : r.changed /\ ~ErrorSet(r))
    IN  IF Len(changed) > 0 THEN 1
        ELSE IF Len(errors) > 0 THEN 2
        ELSE 0

\* config: "absent" (readFile fails with ENOENT), "invalid" (readFile fails
\* otherwise, or the text is no JSON object) or "ok"
ScriptInit ==
    /\ SysIdle
    /\ reqPath = <<>> /\ verdict = "none"
    /\ rawName = <<>> /\ regName = NoName
    /\ scan = NoScan
    /\ keys = NoKeys
    /\ \E config \in {"absent", "invalid", "ok"} :
       \E n \in 0..MaxSkills : \E inputs \in [1..n -> SkillInputs] :
          /\ config # "ok" => n = 0
          /\ script = [NoRun EXCEPT !.pc = "config", !.config = config, !.inputs = inputs]

Exit(code) == [script EXCEPT !.pc = "exit", !.exited = TRUE, !.code = code]

\* lines 77-93: read the configuration; exit 0 if the file is absent or names no
\* skill; any other failure leaves main and is caught on lines 150-153
ReadConfig ==
    /\ script.pc = "config"
    /\ script' = IF script.config = "absent" THEN Exit(0)
                 ELSE IF script.config = "invalid" THEN Exit(2)
                 ELSE IF Len(script.inputs) = 0 THEN Exit(0)
                 ELSE [script EXCEPT !.pc = "loop"]
    /\ UNCHANGED <<reqPath, verdict, rawName, regName, scan, keys, sysVars>>

\* lines 97-102: the next skill is checked
CheckNext ==
    /\ script.pc = "loop"
    /\ Len(script.results) < Len(script.inputs)
    /\ script' = [script EXCEPT
                     !.results = Append(@, checkSkill(script.inputs[Len(script.results) + 1]))]
    /\ UNCHANGED <<reqPath, verdict, rawName, regName, scan, keys, sysVars>>

\* lines 104-147: report and exit
Report ==
    /\ script.pc = "loop"
    /\ Len(script.results) = Len(script.inputs)
    /\ script' = Exit(ExitCode(script.results))
    /\ UNCHANGED <<reqPath, verdict, rawName, regName, scan, keys, sysVars>>

ScriptNext == ReadConfig \/ CheckNext \/ Report

ScriptSpec == ScriptInit /\ [][ScriptNext]_vars

-----------------------------------------------------------------------------
(* Scanner development: scanSkillDirectory (lines 79-98) on every skill    *)
(* directory whose subdirectories hold at most MaxEntries entries.         *)

MaxEntries == 2

\* the names an entry of a subdirectory may have: x, ..x and x:
EntryNames == {<<"x">>, <<".", ".", "x">>, <<"x", ":">>}

\* a file or a directory under one of the names
EntryKinds == {FileEntry(name, <<>>) : name \in EntryNames}
              \cup {DirEntry(name) : name \in EntryNames}

\* what readdir may answer for a subdirectory: an error, or its entries (no two
\* under one name) in the order the storage lists them
Listings ==
    {NoListing} \cup
    {Listing(es) : es \in {e \in UNION {[1..n -> EntryKinds] : n \in 0..MaxEntries} :
                              \A j, k \in 1..Len(e) : j # k => e[j].name # e[k].name}}

ScanInit ==
    /\ SysIdle
    /\ reqPath = <<>> /\ verdict = "none"
    /\ rawName = <<>> /\ regName = NoName
    /\ script = NoRun
    /\ keys = NoKeys
    /\ \E mainExists \in BOOLEAN : \E sub \in [SubdirSet -> Listings] :
          scan = [NoScan EXCEPT !.pc = "start", !.mainExists = mainExists, !.sub = sub]

\* line 80 and the first call of readdir (line 85)
ScanCall ==
    /\ scan.pc = "start"
    /\ scan' = [scan EXCEPT !.pc = "readdir", !.i = 1, !.availableFiles = <<SKILL_MAIN_FILE>>]
    /\ UNCHANGED <<reqPath, verdict, rawName, regName, script, keys, sysVars>>

\* one readdir answers or fails (lines 85-94); after the last one the list is
\* returned (line 97)
ScanReaddir ==
    /\ scan.pc = "readdir"
    /\ LET subdir == ALLOWED_SKILL_SUBDIRS[scan.i]
           avail == ScanStep(scan.availableFiles, subdir, scan.sub[subdir])
       IN  scan' = IF scan.i = Len(ALLOWED_SKILL_SUBDIRS)
                       THEN [scan EXCEPT !.pc = "done", !.availableFiles = avail]
                   ELSE [scan EXCEPT !.i = @ + 1, !.availableFiles = avail]
    /\ UNCHANGED <<reqPath, verdict, rawName, regName, script, keys, sysVars>>

ScanNext == ScanCall \/ ScanReaddir

ScanSpec == ScanInit /\ [][ScanNext]_vars

-----------------------------------------------------------------------------
(* Cache key development: two manifests declare names of at most           *)
(* MaxKeyNameLen tokens, which may hold the separator "/" and the word     *)
(* "scripts"; each is parsed, and the keys of lines 186 and 260 are built  *)
(* for the paths a skill may advertise.                                    *)

MaxKeyNameLen == 3

KeyNameTokens == {"a", "A", "/", "scripts"}

KeyNames == UNION {[1..n -> KeyNameTokens] : n \in 0..MaxKeyNameLen}

\* the forms of the elements of availableFiles: SKILL.md, and <subdir>/<file> for a
\* file named x or SKILL.md
KeyPaths ==
    {SKILL_MAIN_FILE}
    \cup {<<sd, "/">> \o f : sd \in SubdirSet, f \in {<<"x">>, SKILL_MAIN_FILE}}

KeysInit ==
    /\ SysIdle
    /\ reqPath = <<>> /\ verdict = "none"
    /\ rawName = <<>> /\ regName = NoName
    /\ script = NoRun
    /\ scan = NoScan
    /\ \E r1, r2 \in KeyNames : keys = [NoKeys EXCEPT !.pc = "parse", !.raw = <<r1, r2>>]

\* parseSkillFile on the next of the two manifests (lines 50-66): the name it is
\* registered under, or ok = FALSE for the exception of zSkillMatter.parse
KeysParse ==
    /\ keys.pc = "parse"
    /\ LET k == Len(keys.names) + 1
           names == Append(keys.names,
                           [ok |-> zSkillMatterOk(DataNamed(keys.raw[k])),
                            name |-> RegisteredName(keys.raw[k])])
       IN  keys' = [keys EXCEPT !.names = names,
                                !.pc = IF k = Len(keys.raw) THEN "done" ELSE "parse"]
    /\ UNCHANGED <<reqPath, verdict, rawName, regName, script, scan, sysVars>>

KeysNext == KeysParse

KeysSpec == KeysInit /\ [][KeysNext]_vars


-----------------------------------------------------------------------------
(* Properties of loadSkills *)

\* the calls of loadSkills made so far, from outside and from viewSkillContent
Callers ==
    {[promise |-> loads[k].promise, epoch |-> loads[k].epoch] : k \in 1..Len(loads)}
    \cup {[promise |-> reads[r].promise, epoch |-> reads[r].epoch] : r \in 1..Len(reads)}

-----------------------------------------------------------------------------
(* Properties of viewSkillContent *)

\* a name a directory entry can have
IsEntryName(seg) == seg # <<>> /\ seg # DotSeg /\ seg # DotDotSeg

\* the main file's name, or <subdir>/<one entry name>
IsServableShape(p) ==
    \/ p = SKILL_MAIN_FILE
    \/ LET parts == SplitSlash(p)
       IN  /\ Len(parts) = 2
           /\ \E sd \in SubdirSet : parts[1] = <<sd>>
           /\ IsEntryName(parts[2])

\* every file a call has asked the storage for lies in the directory of a skill
\* of the snapshot the call used, at a path of the servable shape
ReadTargetsOk ==
    \A r \in 1..Len(reads) :
        reads[r].target # <<>> =>
            LET snap == passes[reads[r].promise].value
            IN  /\ reads[r].name \in DOMAIN snap
                /\ IsServableShape(reads[r].path)
                /\ reads[r].target = snap[reads[r].name].path \o <<"/">> \o reads[r].path
                /\ \E d \in Dirs : snap[reads[r].name].path = skillsDir \o <<"/", d>>

\* C2: every storage read of viewSkillContent targets <skill.path>/<p> with skill
\* in the snapshot the call used and p the main file's name or <subdir>/<filename>;
\* and the storage changes only by the changes made from outside.
C2_PathSafety ==
    [][ReadTargetsOk' /\ (disk' # disk => changes' = changes + 1)]_vars

\* a call has read scripts/x of a registered skill from the storage
C2_Witness ==
    \E r \in 1..Len(reads) :
        /\ reads[r].path = <<"scripts", "/", "x">>
        /\ reads[r].ios = 1
        /\ reads[r].outcome = "ok"
        /\ reads[r].target = <<"/", "skills", "/", "d1", "/", "scripts", "/", "x">>

\* C4: a call for a name that is not in the snapshot fails with NotFound whatever
\* the path; for a name in the snapshot and a path the validator rejects it fails
\* with InvalidPath and the validator's reason; either way without a storage read
\* and without a write to the content cache.
C4_ErrorPrecedence ==
    \A r \in 1..Len(reads) :
        reads[r].pc # "await" =>
            LET snap == passes[reads[r].promise].value
            IN  /\ reads[r].name \notin DOMAIN snap =>
                      /\ reads[r].pc = "done"
                      /\ reads[r].outcome = "NotFound"
                      /\ reads[r].reason = SkillNotFound
                      /\ reads[r].ios = 0 /\ reads[r].sets = 0 /\ reads[r].target = <<>>
                /\ (reads[r].name \in DOMAIN snap
                    /\ validateSkillPath(reads[r].path) # "ok") =>
                      /\ reads[r].pc = "done"
                      /\ reads[r].outcome = "InvalidPath"
                      /\ reads[r].reason = validateSkillPath(reads[r].path)
                      /\ reads[r].ios = 0 /\ reads[r].sets = 0 /\ reads[r].target = <<>>

\* one call with an unknown name and a rejected path failed with NotFound, another
\* with a known name and the same path with InvalidPath
C4_Witness ==
    \E r1, r2 \in 1..Len(reads) :
        /\ reads[r1].path = reads[r2].path
        /\ validateSkillPath(reads[r1].path) = ReasonTraversal
        /\ reads[r1].name \notin DOMAIN passes[reads[r1].promise].value
        /\ reads[r1].outcome = "NotFound"
        /\ reads[r2].name \in DOMAIN passes[reads[r2].promise].value
        /\ reads[r2].outcome = "InvalidPath"

\* C5: for a skill of the snapshot and a path the validator accepts that is not
\* among the skill's availableFiles the call fails with NotFound, without a
\* storage read and without a write to the content cache, whatever the storage
\* holds at that path.
C5_DeclaredFilesOnly ==
    \A r \in 1..Len(reads) :
        reads[r].pc # "await" =>
            LET snap == passes[reads[r].promise].value
            IN  (/\ reads[r].name \in DOMAIN snap
                 /\ validateSkillPath(reads[r].path) = "ok"
                 /\ ~Includes(snap[reads[r].name].availableFiles, reads[r].path)) =>
                    /\ reads[r].pc = "done"
                    /\ reads[r].outcome = "NotFound"
                    /\ reads[r].reason = FileNotFound
                    /\ reads[r].ios = 0 /\ reads[r].sets = 0 /\ reads[r].target = <<>>

\* the call failed with NotFound for a file that was created after the scan and
\* is on the storage, in the skill's directory
C5_Witness ==
    \E r \in 1..Len(reads) :
        /\ reads[r].outcome = "NotFound"
        /\ reads[r].reason = FileNotFound
        /\ reads[r].name \in DOMAIN passes[reads[r].promise].value
        /\ StorageReadFile(disk, join(passes[reads[r].promise].value[reads[r].name].path,
                                      reads[r].path)).exists

\* C6: once a call for (name, path) has succeeded, a later call for the same
\* (name, path), with no pass started in between, returns the same content and
\* reads nothing from the storage.
C6_CacheHit ==
    \A r1, r2 \in 1..Len(reads) :
        (/\ r1 \in reads[r2].after
         /\ reads[r2].pc = "done"
         /\ reads[r1].name = reads[r2].name
         /\ reads[r1].path = reads[r2].path
         /\ reads[r1].outcome = "ok"
         /\ reads[r1].quiet
         /\ reads[r1].gen = reads[r2].gen) =>
            /\ reads[r2].outcome = "ok"
            /\ reads[r2].content = reads[r1].content
            /\ reads[r2].ios = 0

SameKey(r1, r2) ==
    /\ reads[r1].name = reads[r2].name
    /\ reads[r1].path = reads[r2].path

\* after a failed storage read, with no pass started and no other call writing
\* the key, a later call for the same key that uses the same snapshot has read the
\* storage again
C7_Retry ==
    \A r1, r2 \in 1..Len(reads) :
        (/\ r1 \in reads[r2].after
         /\ SameKey(r1, r2)
         /\ reads[r1].promise = reads[r2].promise
         /\ reads[r1].outcome = "ReadFailure"
         /\ reads[r1].quiet
         /\ reads[r1].gen = Len(passes)
         /\ \A r3 \in 1..Len(reads) : (r3 # r2 /\ SameKey(r1, r3)) => reads[r3].sets = 0
         /\ reads[r2].pc = "done") =>
            /\ reads[r2].ios = 1
            /\ reads[r2].outcome \in {"ok", "ReadFailure"}

\* C7: when the storage read of a call fails the call fails with ReadFailure after
\* one storage read, the content cache is left as it was, and a later call for
\* the same path reads the storage again and returns what it then holds.
C7_FailuresNotCached ==
    [][/\ \A r \in 1..Len(reads) :
              (reads[r].pc = "io" /\ reads'[r].pc = "done") =>
                  \/ /\ reads'[r].outcome = "ok"
                     /\ reads'[r].sets = 1
                     /\ reads'[r].content = StorageReadFile(disk, reads[r].target).text
                  \/ /\ reads'[r].outcome = "ReadFailure"
                     /\ reads'[r].ios = 1
                     /\ reads'[r].sets = 0
                     /\ cache' = cache
       /\ C7_Retry']_vars

\* a call failed at the storage, and a later call for the same path read the
\* storage again and returned the content
C7_Witness ==
    \E r1, r2 \in 1..Len(reads) :
        /\ r1 \in reads[r2].after
        /\ SameKey(r1, r2)
        /\ reads[r1].promise = reads[r2].promise
        /\ reads[r1].outcome = "ReadFailure"
        /\ reads[r2].outcome = "ok"
        /\ reads[r2].ios = 1
        /\ reads[r2].content = <<"x">>
        /\ CacheKey(reads[r2].name, reads[r2].path) \in DOMAIN cache


-----------------------------------------------------------------------------
(* Properties of a load pass, stated for the passes that saw the storage   *)
(* as it is now (no change was made since the pass began).                 *)

\* the pass has returned and the storage is what it enumerated
SawDisk(p) ==
    /\ passes[p].pc = "done"
    /\ passes[p].chg0 = changes
    /\ disk.rootOk

\* nothing but pass p has written the content cache since it was cleared for p
Quiet(p) ==
    /\ p = Len(passes)
    /\ passes[p].alone
    /\ \A r \in 1..Len(reads) : reads[r].promise = p => reads[r].sets = 0

\* the main file of directory d is readable and its manifest valid
IsGood(dk, d) ==
    /\ dk.dirs[d].kind = "dir"
    /\ dk.dirs[d].main.exists
    /\ parseSkillFile(dk.dirs[d].main.text).ok

\* the directories with a readable, valid main file, in the order they are listed
GoodDirs(dk) == SelectSeq(dk.order, LAMBDA d : IsGood(dk, d))

FinalName(dk, d) == parseSkillFile(dk.dirs[d].main.text).name

\* the first of the good directories that yields the name
FirstWith(dk, name) ==
    LET good == GoodDirs(dk)
        k == CHOOSE i \in 1..Len(good) :
                 /\ FinalName(dk, good[i]) = name
                 /\ \A j \in 1..(i - 1) : FinalName(dk, good[j]) # name
    IN  good[k]

\* C8: directories of one pass that yield the same final name give one skill under
\* that name, the one listed first, and the cache entry <name>/SKILL.md holds the
\* first one's body; a later directory adds no skill and no cache key.
C8_FirstWins ==
    \A p \in 1..Len(passes) :
        SawDisk(p) =>
            LET good == GoodDirs(disk)
                names == {FinalName(disk, good[k]) : k \in 1..Len(good)}
            IN  /\ DOMAIN passes[p].value = names
                /\ \A name \in names :
                      LET first == FirstWith(disk, name)
                      IN  /\ passes[p].value[name].path = skillsDir \o <<"/", first>>
                          /\ passes[p].value[name].description
                                 = parseSkillFile(disk.dirs[first].main.text).description
                          /\ Quiet(p) =>
                                /\ CacheKey(name, SKILL_MAIN_FILE) \in DOMAIN cache
                                /\ cache[CacheKey(name, SKILL_MAIN_FILE)]
                                       = parseSkillFile(disk.dirs[first].main.text).content
                /\ Quiet(p) =>
                      DOMAIN cache = {CacheKey(name, SKILL_MAIN_FILE) : name \in names}

\* two directories yield the name a-b, and the pass registered the first, d1
C8_Witness ==
    \E p \in 1..Len(passes) :
        /\ SawDisk(p)
        /\ Quiet(p)
        /\ Len(GoodDirs(disk)) = 2
        /\ FinalName(disk, "d1") = FinalName(disk, "d2")
        /\ disk.dirs["d1"].main.text # disk.dirs["d2"].main.text
        /\ DOMAIN passes[p].value = {<<"a", "-", "b">>}
        /\ cache[<<"a", "-", "b", "/", "SKILL.md">>] = <<"x">>

\* the storage without the directories whose main file is missing or invalid
RemoveBad(dk) ==
    [dk EXCEPT !.dirs = [d \in Dirs |->
                            IF dk.dirs[d].kind = "dir" /\ ~IsGood(dk, d) THEN Absent
                            ELSE dk.dirs[d]]]

\* the skill a directory with a valid main file gives
SkillOf(dk, d) ==
    LET pr == parseSkillFile(dk.dirs[d].main.text)
        s1 == ScanStep(<<SKILL_MAIN_FILE>>, "scripts", dk.dirs[d].sub["scripts"])
        s2 == ScanStep(s1, "references", dk.dirs[d].sub["references"])
        s3 == ScanStep(s2, "assets", dk.dirs[d].sub["assets"])
    IN  [path |-> skillsDir \o <<"/", d>>, name |-> pr.name,
         description |-> pr.description, metadata |-> pr.metadata,
         availableFiles |-> s3]

\* the snapshot of a tree all of whose directories have a valid main file
RECURSIVE SnapshotOf(_, _, _)
SnapshotOf(dk, ds, acc) ==
    IF ds = <<>> THEN acc
    ELSE LET d == Head(ds)
             sk == SkillOf(dk, d)
         IN  SnapshotOf(dk, Tail(ds),
                        IF dk.dirs[d].kind = "dir" /\ sk.name \notin DOMAIN acc
                            THEN MapSet(acc, sk.name, sk)
                        ELSE acc)

\* C9: a directory whose main file is missing, unreadable or invalid is skipped and
\* the others are registered all the same: the pass's snapshot is the snapshot of
\* the same tree without the bad directories.
C9_FailureIsolation ==
    \A p \in 1..Len(passes) :
        SawDisk(p) =>
            passes[p].value = SnapshotOf(RemoveBad(disk), disk.order, EmptyMap)

\* the directory listed first is bad, and the pass registered the one after it
C9_Witness ==
    \E p \in 1..Len(passes) :
        /\ SawDisk(p)
        /\ disk.dirs[disk.order[1]].kind = "dir"
        /\ ~IsGood(disk, disk.order[1])
        /\ IsGood(disk, disk.order[2])
        /\ DOMAIN passes[p].value = {FinalName(disk, disk.order[2])}

\* C10: the promise of loadSkills is never rejected, whatever the storage does: no
\* caller sees a failure of the load, every pass that has returned has a snapshot,
\* and a pass that could not enumerate the root has the empty one.
C10_LoadNeverFails ==
    /\ \A p \in 1..Len(passes) :
          /\ passes[p].state \in {"pending", "fulfilled"}
          /\ passes[p].pc = "done" <=> passes[p].state = "fulfilled"
          /\ passes[p].rootFailed => (passes[p].pc = "done" /\ passes[p].value = EmptyMap)
    /\ \A r \in 1..Len(reads) : reads[r].outcome # "LoadFailed"
    /\ ready => (passes[1].state = "fulfilled" /\ skills = passes[1].value)

\* one pass could not enumerate the root, another ended in an exception, and both
\* resolved to the empty snapshot
C10_Witness ==
    \E p, q \in 1..Len(passes) :
        /\ passes[p].rootFailed /\ ~passes[p].threw /\ passes[p].state = "fulfilled"
        /\ passes[q].threw /\ passes[q].state = "fulfilled"
        /\ passes[q].value = EmptyMap

-----------------------------------------------------------------------------
(* Properties of validateSkillPath *)

\* a segment of the normalized path is ".."
HasParentSegment(normalized) ==
    \E k \in 1..Len(SplitSlash(normalized)) : SplitSlash(normalized)[k] = DotDotSeg

\* the decision procedure stated rule by rule
Decision(requestedPath) ==
    LET normalized == normalize(requestedPath)
        parts == SplitSlash(normalized)
    IN  IF StartsWithSlash(requestedPath) \/ IncludesColon(requestedPath) THEN "reject"
        ELSE IF HasParentSegment(normalized) THEN "reject"
        ELSE IF normalized = SKILL_MAIN_FILE THEN "accept"
        ELSE IF Len(parts) = 2 /\ \E sd \in SubdirSet : parts[1] = <<sd>> THEN "accept"
        ELSE "reject"

\* C3: validateSkillPath decides as the procedure does: reject a path that starts
\* with "/" or contains ":"; else reject if a segment of the normalized path is
\* ".."; else accept the main file's name; else accept two segments the first of
\* which is scripts, references or assets; else reject.
C3_DecisionProcedure ==
    verdict # "none" => (verdict = "ok" <=> Decision(reqPath) = "accept")

\* the paths named are decided as stated
C3_Examples ==
    verdict # "none" =>
        /\ reqPath \in {<<".", ".", "/", ".", ".", "/">> \o EtcPasswd,
                        <<"/">> \o EtcPasswd,
                        <<"scripts", "/", ".", ".", "/", ".", ".", "/", ".", ".", "/", "x">>,
                        <<"scripts", "/", "x", "/", "x", ".", "x">>} => verdict # "ok"
        /\ reqPath \in {<<"SKILL.md">>, <<"scripts", "/", "x", ".", "x">>,
                        <<"references", "/", "x", ".", "x">>,
                        <<"assets", "/", "x", ".", "x">>} => verdict = "ok"


-----------------------------------------------------------------------------
(* Properties of loadSkills across failures and forced reloads *)

\* the step is a call of loadSkills, from outside or from viewSkillContent
IsCallStep == Len(loads') > Len(loads) \/ Len(reads') > Len(reads)

\* the promise the call of the step received
CallPromise ==
    IF Len(loads') > Len(loads) THEN loads'[Len(loads')].promise
    ELSE reads'[Len(reads')].promise

\* the call of the step was made with force set
CallForced == Len(loads') > Len(loads) /\ loads'[Len(loads')].force

\* the step started a pass from scratch: cache cleared, nothing enumerated yet
StartsFresh ==
    /\ Len(passes') = Len(passes) + 1
    /\ CallPromise = Len(passes')
    /\ slot' = Len(passes')
    /\ passes'[Len(passes')].pc = "readdir"
    /\ passes'[Len(passes')].state = "pending"
    /\ passes'[Len(passes')].skills = EmptyMap
    /\ cache' = EmptyMap

\* C11: a pass that fails with an exception resolves to the empty snapshot and
\* clears the stored promise; no later call receives the failed pass's promise, and
\* a non-forced call made while no promise is stored starts a pass from scratch.
C11_FailureNotPoisoning ==
    [][/\ \A p \in 1..Len(passes) :
              (~passes[p].threw /\ passes'[p].threw) =>
                  /\ slot' = 0
                  /\ passes'[p].state = "fulfilled"
                  /\ passes'[p].value = EmptyMap
       /\ IsCallStep =>
              /\ CallPromise <= Len(passes) => ~passes[CallPromise].threw
              /\ slot = 0 => StartsFresh]_vars

\* the module's own pass failed with an exception, and the next non-forced call
\* started a second pass, which has registered a skill
C11_Witness ==
    /\ Len(passes) >= 2
    /\ passes[1].threw
    /\ \E k \in 2..Len(loads) : ~loads[k].force /\ loads[k].promise = 2
    /\ passes[2].state = "fulfilled"
    /\ passes[2].value # EmptyMap


\* pass p was started by a call with force set
Reloaded(p) == \E k \in 1..Len(loads) : loads[k].force /\ loads[k].promise = p

\* pass p is the latest, has returned, and the storage has not changed since it
\* began
ReloadDone(p) ==
    /\ Reloaded(p)
    /\ p = Len(passes)
    /\ passes[p].state = "fulfilled"
    /\ passes[p].chg0 = changes

\* the directory of the root a registered skill was loaded from
DirOfSkill(sk) == CHOOSE d \in Dirs : sk.path = skillsDir \o <<"/", d>>

\* what the storage holds now for a file of a registered skill: for the main file
\* its body, or the file as it is
ContentsNow(sk, path) ==
    IF path = SKILL_MAIN_FILE
        THEN {parseSkillFile(disk.dirs[DirOfSkill(sk)].main.text).content,
              disk.dirs[DirOfSkill(sk)].main.text}
    ELSE {StorageReadFile(disk, join(sk.path, path)).text}

\* every skill of p's snapshot has its directory on the storage (a removed skill
\* is not in it, and a call for it fails with NotFound), every call that used the
\* snapshot and succeeded returned what the storage holds now, and every key of
\* the content cache is <name>/<path> for a skill of the snapshot and one of its
\* availableFiles
ReflectsStorage(p) ==
    LET snap == passes[p].value
    IN  /\ \A name \in DOMAIN snap :
              /\ \E d \in Dirs : snap[name].path = skillsDir \o <<"/", d>>
              /\ IsGood(disk, DirOfSkill(snap[name]))
              /\ FinalName(disk, DirOfSkill(snap[name])) = name
        /\ \A r \in 1..Len(reads) :
              (reads[r].promise = p /\ reads[r].pc = "done") =>
                  /\ reads[r].name \notin DOMAIN snap
                         => reads[r].outcome = "NotFound"
                  /\ reads[r].outcome = "ok"
                         => reads[r].content
                                \in ContentsNow(snap[reads[r].name], reads[r].path)
        /\ \A key \in DOMAIN cache :
              \E name \in DOMAIN snap :
                  \E k \in 1..Len(snap[name].availableFiles) :
                      key = CacheKey(name, snap[name].availableFiles[k])

\* C12: after a forced reload that followed the changes of the storage has
\* completed, the snapshot, the content every call returns and the keys of the
\* content cache reflect the storage as it is, with nothing left from before.
C12_ReloadReflectsStorage ==
    \A p \in 1..Len(passes) : ReloadDone(p) => ReflectsStorage(p)

\* the part that holds: the same for a forced reload that began when no other
\* pass was pending and no storage read of a content was under way
C12_QuiescentReload ==
    \A p \in 1..Len(passes) : (ReloadDone(p) /\ passes[p].alone) => ReflectsStorage(p)

\* a file was added to a skill, a forced reload completed, and a call then
\* returned the file, which the first snapshot did not list
C12_Witness ==
    \E p \in 1..Len(passes) :
        /\ ReloadDone(p)
        /\ passes[p].alone
        /\ changes = 1
        /\ \E r \in 1..Len(reads) :
              /\ reads[r].promise = p
              /\ reads[r].outcome = "ok"
              /\ reads[r].content = <<"x">>
              /\ reads[r].name \in DOMAIN passes[1].value
              /\ ~Includes(passes[1].value[reads[r].name].availableFiles, reads[r].path)


-----------------------------------------------------------------------------
(* Properties of parseSkillFile *)

\* C13: a manifest whose trimmed, non-empty name has a character outside
\* [a-zA-Z0-9-_] is registered under a name that is non-empty, matches
\* ^[a-zA-Z0-9-_]+$ and is left as it is when normalized again.
C13_NormalizedNames ==
    (regName.done /\ regName.ok /\ ~NameIsValid(Trim(rawName))) =>
        /\ regName.name # <<>>
        /\ NameIsValid(regName.name)
        /\ RegisteredName(regName.name) = regName.name
        /\ NormalizeName(regName.name) = regName.name

\* the part that holds: the name registered has only characters of [a-zA-Z0-9-_]
\* and parsing it again yields the same name
C13_CharactersAllowed ==
    (regName.done /\ regName.ok) =>
        /\ \A i \in 1..Len(regName.name) : regName.name[i] \in NameAllowed
        /\ NameIsValid(Trim(rawName)) => regName.name = Trim(rawName)
        /\ ~NameIsValid(Trim(rawName)) => NormalizeName(regName.name) = regName.name
        /\ RegisteredName(regName.name) = regName.name


-----------------------------------------------------------------------------
(* Properties of the snapshots handed to callers *)

\* a promise is fulfilled when its pass returns, with the map the pass built (or
\* the empty map after an exception); neither the promise's value nor the map
\* changes afterwards, the module's export never changes, and a call of
\* viewSkillContent goes on only when its promise is settled
SnapshotsFrozen ==
    /\ \A p \in 1..Len(passes) :
          /\ passes[p].state = "fulfilled" =>
                /\ passes'[p].state = "fulfilled"
                /\ passes'[p].value = passes[p].value
                /\ passes'[p].skills = passes[p].skills
          /\ (passes[p].state = "pending" /\ passes'[p].state = "fulfilled") =>
                /\ passes'[p].pc = "done"
                /\ \/ passes'[p].value = passes'[p].skills
                   \/ passes'[p].threw /\ passes'[p].value = EmptyMap
    /\ ready => (ready' /\ skills' = skills)
    /\ \A r \in 1..Len(reads) :
          (reads[r].pc = "await" /\ reads'[r].pc # "await") => Settled(reads[r].promise)

\* every pass but the module's own was started by a forced call
OnlyForcedReplaces == \A p \in 2..Len(passes) : Reloaded(p)

\* every pass but the module's own was started by a forced call, or by a call made
\* after an earlier pass had failed with an exception
ForcedOrRetryReplaces ==
    \A p \in 2..Len(passes) : Reloaded(p) \/ \E q \in 1..(p - 1) : passes[q].threw

\* C14 as stated: every snapshot handed out is the finished result of one pass and
\* is never changed afterwards, and the snapshot in use is replaced only by a
\* forced reload.
C14_OnlyForcedReload == [][SnapshotsFrozen /\ OnlyForcedReplaces']_vars

\* C14: every snapshot handed out is the finished result of one pass and is never
\* changed afterwards, and the snapshot in use is replaced only as a whole: by a
\* forced reload, or by the pass a call starts after a pass has failed.
C14_SnapshotAtomicity == [][SnapshotsFrozen /\ ForcedOrRetryReplaces']_vars

\* a call has returned content from the snapshot of one pass while a later pass
\* has registered some, not all, of its skills
C14_Witness ==
    \E r \in 1..Len(reads) : \E q \in 1..Len(passes) :
        /\ reads[r].outcome = "ok"
        /\ reads[r].promise < q
        /\ passes[q].state = "pending"
        /\ passes[q].skills # EmptyMap
        /\ passes[q].skills # passes[reads[r].promise].value
        /\ Cardinality(DOMAIN passes[reads[r].promise].value) = 2


-----------------------------------------------------------------------------
(* Properties of the passes that run at one time *)

InFlight == {p \in 1..Len(passes) : passes[p].state = "pending"}

\* C15: at most one pass at a time is clearing or seeding the content cache and
\* building a registry: no two passes are in flight at once.
C15_SerializedPasses == Cardinality(InFlight) <= 1

\* C16: a pass over a root that is enumerated but holds no directory with a valid
\* main file returns the empty snapshot and no error, and every call that uses an
\* empty snapshot fails with NotFound, without a storage read.
C16_EmptyIsValid ==
    \A p \in 1..Len(passes) :
        /\ (SawDisk(p) /\ GoodDirs(disk) = <<>>) =>
              /\ passes[p].state = "fulfilled"
              /\ passes[p].value = EmptyMap
              /\ ~passes[p].rootFailed
              /\ ~passes[p].threw
        /\ (passes[p].state = "fulfilled" /\ passes[p].value = EmptyMap) =>
              \A r \in 1..Len(reads) :
                  (reads[r].promise = p /\ reads[r].pc # "await") =>
                      /\ reads[r].outcome = "NotFound"
                      /\ reads[r].reason = SkillNotFound
                      /\ reads[r].ios = 0

\* the root was enumerated and held one directory, with an invalid manifest; the
\* pass returned the empty snapshot and a call failed with NotFound
C16_Witness ==
    \E p \in 1..Len(passes) :
        /\ SawDisk(p)
        /\ GoodDirs(disk) = <<>>
        /\ Len(RootEntries(disk)) = 1
        /\ passes[p].value = EmptyMap
        /\ \E r \in 1..Len(reads) : reads[r].promise = p /\ reads[r].outcome = "NotFound"


-----------------------------------------------------------------------------
(* Properties of the upstream check script *)

\* the skills of the run whose pinned or current version could not be fetched
FetchFailed ==
    {k \in 1..Len(script.inputs) :
        script.inputs[k].pinned = "fail" \/ script.inputs[k].current = "fail"}

\* the skills of the run whose two versions were fetched and differ
UpstreamChanged ==
    {k \in 1..Len(script.inputs) :
        /\ k \notin FetchFailed
        /\ script.inputs[k].pinned # script.inputs[k].current}

\* C17: the script exits with 0 when nothing is configured or every skill is up to
\* date, with 1 when a skill has upstream changes, with 2 when an error occurred
\* and no skill has changes (or the configuration could not be read); with exactly
\* one of the three in every case, and never with 0 after a fetch error.
C17_ExitCodes ==
    script.exited =>
        /\ script.code \in {0, 1, 2}
        /\ script.config = "absent" => script.code = 0
        /\ script.config = "invalid" => script.code = 2
        /\ script.config = "ok" =>
              /\ Len(script.results) \in {0, Len(script.inputs)}
              /\ script.code = 1 <=> UpstreamChanged # {}
              /\ script.code = 2 <=> (UpstreamChanged = {} /\ FetchFailed # {})
              /\ script.code = 0 <=> (UpstreamChanged = {} /\ FetchFailed = {})
        /\ FetchFailed # {} => script.code # 0

\* a run with one skill changed and one fetch error has exited with 1
C17_Witness ==
    /\ script.exited
    /\ UpstreamChanged # {}
    /\ FetchFailed # {}
    /\ script.code = 1


-----------------------------------------------------------------------------
(* Properties of forced reloads *)

\* a call that has gone on used the snapshot of its promise: it failed with
\* "Skill not found" exactly if that snapshot lacks the name
UsesOwnSnapshot ==
    \A r \in 1..Len(reads) :
        reads[r].pc # "await" =>
            (reads[r].name \in DOMAIN passes[reads[r].promise].value
                <=> ~(reads[r].outcome = "NotFound" /\ reads[r].reason = SkillNotFound))

\* C18: a forced call always starts a new pass, whatever is stored or in flight;
\* every later call receives the promise of that pass or of a later one, never of
\* a pass begun before the forced call, and uses that promise's snapshot.
C18_ForcedSupersedes ==
    [][/\ IsCallStep =>
              /\ \A k \in 1..Len(loads) : loads[k].force => CallPromise >= loads[k].promise
              /\ CallForced => StartsFresh
       /\ \A r \in 1..Len(reads) : reads'[r].promise = reads[r].promise
       /\ UsesOwnSnapshot']_vars

\* after a forced reload a call returned a file of a skill that the snapshot
\* cached before the reload did not hold
C18_Witness ==
    \E k \in 1..Len(loads) : \E r \in 1..Len(reads) :
        /\ loads[k].force
        /\ reads[r].promise = loads[k].promise
        /\ reads[r].outcome = "ok"
        /\ reads[r].name \notin DOMAIN passes[1].value
        /\ passes[1].state = "fulfilled"


-----------------------------------------------------------------------------
(* Properties of a pass that could not enumerate the root *)

\* the latest pass could not enumerate the root and has returned
RootFailedLatest ==
    /\ passes # <<>>
    /\ passes[Len(passes)].rootFailed
    /\ Settled(Len(passes))

SomePassThrew == \E p \in 1..Len(passes) : passes[p].threw

\* every call that used the snapshot of a pass that could not enumerate the root
\* found no skill, whatever the storage holds by then
RootFailedIsEmpty ==
    \A r \in 1..Len(reads) :
        (reads[r].pc # "await" /\ passes[reads[r].promise].rootFailed) =>
            /\ reads[r].outcome = "NotFound"
            /\ reads[r].ios = 0

\* a non-forced call returns the stored promise of the latest pass and starts none
ReturnsStored ==
    (IsCallStep /\ ~CallForced) =>
        /\ CallPromise = Len(passes)
        /\ passes' = passes
        /\ cache' = cache

-----------------------------------------------------------------------------
(* Properties of the content cache after a pass *)

\* the body of a main file: the text after the front matter block, trimmed
BodyOf(text) ==
    Trim(IF Len(text) > 0 /\ text[1] \in FrontMatterTokens THEN Tail(text) ELSE text)

\* every call of viewSkillContent made so far had returned before pass p began
NoReadSince(p) ==
    \A r \in 1..Len(reads) : reads[r].pc = "done" /\ reads[r].gen < p

\* the content cache holds one entry per skill of p's snapshot, under
\* <name>/SKILL.md, and no other; the entry is the body of the skill's main file
MainKeys(p) == {CacheKey(name, SKILL_MAIN_FILE) : name \in DOMAIN passes[p].value}

Seeded(p) ==
    /\ DOMAIN cache = MainKeys(p)
    /\ (passes[p].chg0 = changes /\ disk.rootOk) =>
          \A name \in DOMAIN passes[p].value :
              cache[CacheKey(name, SKILL_MAIN_FILE)]
                  = BodyOf(disk.dirs[DirOfSkill(passes[p].value[name])].main.text)

\* C20: when a pass has completed and no call of viewSkillContent was made since
\* it began, the content cache holds exactly one entry per skill of the snapshot,
\* under <name>/SKILL.md, with the trimmed body of its main file.
C20_SeedingInvariant ==
    \A p \in 1..Len(passes) :
        (p = Len(passes) /\ passes[p].state = "fulfilled" /\ NoReadSince(p)) => Seeded(p)

\* the part that holds: the same for a pass that began when no other pass was
\* pending
C20_QuiescentSeeding ==
    \A p \in 1..Len(passes) :
        (p = Len(passes) /\ passes[p].state = "fulfilled" /\ NoReadSince(p)
         /\ passes[p].alone) => Seeded(p)


-----------------------------------------------------------------------------
(* Properties of scanSkillDirectory *)

\* "<subdir>/<name>" for the files a listing holds, in its order; nothing for a
\* subdirectory that is missing or unreadable
ListedFiles(subdir, lst) ==
    IF ~lst.exists THEN <<>>
    ELSE LET files == SelectSeq(lst.entries, LAMBDA e : e.isFile)
         IN  [k \in 1..Len(files) |-> <<subdir, "/">> \o files[k].name]

\* a path that is absolute or has a segment ".."
AbsoluteOrTraversal(path) ==
    \/ Len(path) > 0 /\ path[1] = "/"
    \/ \E k \in 1..Len(SplitSlash(path)) : SplitSlash(path)[k] = DotDotSeg

\* C21: the scanner never fails, and it returns SKILL.md first, whether or not
\* the file exists, then the files (not the directories) of scripts, of references
\* and of assets in listing order, a missing subdirectory adding nothing; no
\* element is absolute or has a traversal segment.
C21_ScannerResult ==
    /\ scan.pc \in {"off", "start", "readdir", "done"}
    /\ scan.pc = "done" =>
          /\ scan.availableFiles
                 = <<SKILL_MAIN_FILE>> \o ListedFiles("scripts", scan.sub["scripts"])
                   \o ListedFiles("references", scan.sub["references"])
                   \o ListedFiles("assets", scan.sub["assets"])
          /\ \A k \in 1..Len(scan.availableFiles) :
                ~AbsoluteOrTraversal(scan.availableFiles[k])

\* a directory without a main file, with a file and a directory in scripts, no
\* references and a file in assets, was scanned
C21_Witness ==
    /\ scan.pc = "done"
    /\ ~scan.mainExists
    /\ scan.sub["scripts"].exists
    /\ \E j, k \in 1..Len(scan.sub["scripts"].entries) :
          scan.sub["scripts"].entries[j].isFile /\ ~scan.sub["scripts"].entries[k].isFile
    /\ ~scan.sub["references"].exists
    /\ scan.sub["assets"].exists /\ Len(scan.sub["assets"].entries) = 1
    /\ scan.sub["assets"].entries[1].isFile
    /\ Len(scan.availableFiles) = 3


-----------------------------------------------------------------------------
(* Properties of the name normalization *)

\* every maximal run of "-" and "_" replaced by one character: "-" if the run
\* holds a "-", else "_"
RECURSIVE CollapseMixed(_)
CollapseMixed(s) ==
    IF Len(s) = 0 THEN <<>>
    ELSE IF s[1] \in {"-", "_"}
        THEN LET n == RunLen(s, 1, {"-", "_"})
             IN  <<IF \E k \in 1..n : s[k] = "-" THEN "-" ELSE "_">>
                 \o CollapseMixed(SubSeq(s, n + 1, Len(s)))
    ELSE <<s[1]>> \o CollapseMixed(Tail(s))

\* the stated algorithm: lower-case, whitespace runs to "-", other characters to
\* "_", runs collapsed with "-" preferred, leading and trailing "-"/"_" removed
StatedNormalization(name) ==
    StripEnds(CollapseMixed(ReplaceDisallowed(ReplaceSpaceRuns(toLowerCase(name)))))

NoAdjacentSeparators(name) ==
    \A k \in 1..Len(name) :
        k < Len(name) => ~(name[k] \in {"-", "_"} /\ name[k + 1] \in {"-", "_"})

\* C22: a name that fails /^[a-zA-Z0-9-_]+$/ is registered as the result of the
\* stated algorithm, a mixed run of "-" and "_" becoming "-", and the result has
\* no two adjacent characters from "-", "_".
C22_NormalizationAlgorithm ==
    (regName.done /\ regName.ok /\ ~NameIsValid(Trim(rawName))) =>
        /\ regName.name = StatedNormalization(Trim(rawName))
        /\ NoAdjacentSeparators(regName.name)

\* the part that holds: the registered name of a normalized name has no two
\* adjacent characters from "-", "_", and none at its ends
C22_SeparatorsCollapsed ==
    (regName.done /\ regName.ok /\ ~NameIsValid(Trim(rawName))) =>
        /\ NoAdjacentSeparators(regName.name)
        /\ Len(regName.name) > 0 =>
              regName.name[1] \notin {"-", "_"} /\ Last(regName.name) \notin {"-", "_"}


\* C23: a manifest whose name, once trimmed, matches /^[a-zA-Z0-9-_]+$/ is
\* accepted and registered under exactly that name, case preserved.
C23_ValidNamesVerbatim ==
    (regName.done /\ NameIsValid(Trim(rawName))) =>
        regName.ok /\ regName.name = Trim(rawName)

\* a name with an upper-case letter and surrounding whitespace was registered
C23_Witness ==
    /\ regName.done
    /\ rawName = <<" ", "A", "-", "0">>
    /\ regName.name = <<"A", "-", "0">>

\* the name the manifest of directory d declares, trimmed
DeclaredName(dk, d) == Trim(matter(dk.dirs[d].main.text).data.name)

\* in the repository: after a pass over unchanged storage, the snapshot holds a
\* skill under the trimmed name of every loadable directory whose name is valid
C23_RegisteredUnderName ==
    \A p \in 1..Len(passes) :
        (SawDisk(p) /\ ~passes[p].rootFailed) =>
            \A d \in Dirs :
                (IsGood(disk, d) /\ NameIsValid(DeclaredName(disk, d))) =>
                    /\ DeclaredName(disk, d) \in DOMAIN passes[p].value
                    /\ passes[p].value[DeclaredName(disk, d)].name = DeclaredName(disk, d)


-----------------------------------------------------------------------------
(* Properties of the order of registration *)

\* the directory names in lexical order
LexicalOrder == <<"d1", "d2">>

\* C24: the skill registered for a name several directories declare is the one of
\* the directory first in a stable order of the names (lexical), whatever the
\* order the storage lists the entries in, so passes over the same content give
\* equal snapshots.
C24_DeterministicTieBreak ==
    \A p \in 1..Len(passes) :
        SawDisk(p) =>
            passes[p].value = SnapshotOf(RemoveBad(disk), LexicalOrder, EmptyMap)

\* the part that holds: passes that were given the same content in the same
\* listing order have equal snapshots
C24_SameListingSameSnapshot ==
    \A p, q \in 1..Len(passes) :
        (SawDisk(p) /\ SawDisk(q)) => passes[p].value = passes[q].value


-----------------------------------------------------------------------------
(* Properties of the content cache under interleaving *)

\* the pass started last: its snapshot is the current one
Current == Len(passes)

\* the key is <name>/<path> for a skill of the snapshot and one of its availableFiles
KeyOfSnapshot(key, snap) ==
    \E name \in DOMAIN snap :
        \E k \in 1..Len(snap[name].availableFiles) :
            key = CacheKey(name, snap[name].availableFiles[k])

\* the skill and the path a key of the snapshot stands for
PairOfKey(key, snap) ==
    CHOOSE pair \in UNION {{<<name, snap[name].availableFiles[k]>> :
                               k \in 1..Len(snap[name].availableFiles)} :
                           name \in DOMAIN snap} :
        key = CacheKey(pair[1], pair[2])

\* C25: whatever the interleaving of viewSkillContent calls and forced reloads,
\* once every pass has returned and no storage read is under way, every key of the
\* content cache is <name>/<path> for a skill of the current snapshot and one of
\* its availableFiles, and (the storage not having changed since the current pass
\* began) its value is what the storage holds, not content from before the reload.
C25_CacheCoherence ==
    (Quiescent /\ passes # <<>>) =>
        LET snap == passes[Current].value
        IN  \A key \in DOMAIN cache :
                /\ KeyOfSnapshot(key, snap)
                /\ (passes[Current].chg0 = changes /\ disk.rootOk) =>
                      LET pair == PairOfKey(key, snap)
                      IN  cache[key] \in ContentsNow(snap[pair[1]], pair[2])

\* the part that holds: the same when the current pass began with no other pass
\* pending and no storage read of a content under way
C25_QuiescentStart ==
    (Quiescent /\ passes # <<>> /\ passes[Current].alone) =>
        LET snap == passes[Current].value
        IN  \A key \in DOMAIN cache :
                /\ KeyOfSnapshot(key, snap)
                /\ (passes[Current].chg0 = changes /\ disk.rootOk) =>
                      LET pair == PairOfKey(key, snap)
                      IN  cache[key] \in ContentsNow(snap[pair[1]], pair[2])


-----------------------------------------------------------------------------
(* Properties of the content served for the main file *)

\* the text holds a front matter block
HasManifest(text) == Len(text) > 0 /\ text[1] \in FrontMatterTokens

\* the calls that returned the content of a skill's main file
MainReads ==
    {r \in 1..Len(reads) :
        reads[r].pc = "done" /\ reads[r].outcome = "ok" /\ reads[r].path = SKILL_MAIN_FILE}

\* C26: a call for the main file of a skill returns the trimmed body without the
\* front matter block, as the pass parsed it, never the file's text with the
\* manifest, whatever the body is and in every reachable state.
C26_MainFileServesBody ==
    \A r \in MainReads :
        LET p == reads[r].promise
            sk == passes[p].value[reads[r].name]
        IN  /\ ~HasManifest(reads[r].content)
            /\ (passes[p].chg0 = changes /\ disk.rootOk) =>
                  reads[r].content = BodyOf(disk.dirs[DirOfSkill(sk)].main.text)

\* the part that holds: the same for the skills whose body is not empty, when the
\* snapshot's pass began with nothing else in flight
C26_NonEmptyBody ==
    \A r \in MainReads :
        LET p == reads[r].promise
            sk == passes[p].value[reads[r].name]
        IN  (passes[p].chg0 = changes /\ disk.rootOk /\ passes[p].alone /\ p = Len(passes)
             /\ BodyOf(disk.dirs[DirOfSkill(sk)].main.text) # <<>>) =>
                reads[r].content = BodyOf(disk.dirs[DirOfSkill(sk)].main.text)


-----------------------------------------------------------------------------
(* Properties relating the scanner and the validator *)

\* C27: every element of the availableFiles the scanner returns is accepted by
\* validateSkillPath, whatever the names the storage lists in the subdirectories,
\* so a call for an advertised file is not refused as an invalid path.
C27_AdvertisedServable ==
    scan.pc = "done" =>
        \A k \in 1..Len(scan.availableFiles) :
            validateSkillPath(scan.availableFiles[k]) = "ok"

\* the part that holds: an element is refused only if its file name holds ".."
\* or ":"
C27_PlainNamesServable ==
    scan.pc = "done" =>
        \A k \in 1..Len(scan.availableFiles) :
            (~IncludesDotDot(scan.availableFiles[k]) /\ ~IncludesColon(scan.availableFiles[k]))
                => validateSkillPath(scan.availableFiles[k]) = "ok"


-----------------------------------------------------------------------------
(* Properties of the stored promise under supersession *)

\* C28: the failure of a pass that a forced pass has superseded does not reset
\* the stored promise: as long as the pass started last has not failed, the slot
\* refers to it, so a non-forced call returns its promise and starts no pass.
C28_SupersededKeepsSlot ==
    (passes # <<>> /\ ~passes[Current].threw) => slot = Current

\* what follows from the reset: a non-forced call made while the newer pass was
\* pending started a third pass
C28_ThirdPassStarted ==
    \E k \in 1..Len(loads) :
        /\ ~loads[k].force
        /\ loads[k].promise = Current
        /\ Current >= 3
        /\ passes[Current - 1].state = "pending"
        /\ ~passes[Current - 1].threw
        /\ \A j \in 1..Len(loads) : j # k => loads[j].promise # Current


-----------------------------------------------------------------------------
(* Properties of the cache keys *)

\* C29: for registered names n1, n2, whatever the manifests declared, and paths
\* p1, p2 a skill may advertise, the keys <n1>/<p1> and <n2>/<p2> are equal only
\* if n1 = n2 and p1 = p2.
C29_KeysCollisionFree ==
    (keys.pc = "done" /\ keys.names[1].ok /\ keys.names[2].ok) =>
        \A p1, p2 \in KeyPaths :
            CacheKey(keys.names[1].name, p1) = CacheKey(keys.names[2].name, p2)
                => keys.names[1].name = keys.names[2].name /\ p1 = p2

\* the names a and a/scripts were declared; had the second been registered as
\* declared, a/scripts/SKILL.md would be the key of two files
C29_Witness ==
    /\ keys.pc = "done"
    /\ keys.raw = << <<"a">>, <<"a", "/", "scripts">> >>
    /\ keys.names[1].ok /\ keys.names[2].ok
    /\ CacheKey(keys.raw[1], <<"scripts", "/", "SKILL.md">>)
           = CacheKey(keys.raw[2], SKILL_MAIN_FILE)
    /\ keys.names[2].name = <<"a", "_", "scripts">>


-----------------------------------------------------------------------------
(* Properties of the view_skill handler *)

\* the requests the handler has answered with a content
Answered ==
    {v \in 1..Len(views) :
        /\ views[v].found
        /\ reads[views[v].read].pc = "done"
        /\ reads[views[v].read].outcome = "ok"}

\* the snapshot viewSkillContent resolved the content of request v from
SnapshotUsed(v) == passes[reads[views[v].read].promise].value

\* C30: the name, description, availableFiles and metadata a view_skill request
\* returns are those of the skill record, in the snapshot the content was resolved
\* from, and the handler does not report a skill as not found that the stored
\* snapshot holds.
C30_OneSnapshot ==
    /\ \A v \in Answered :
          LET sk == SnapshotUsed(v)[views[v].name]
              res == Response(v)
          IN  /\ res.name = sk.name
              /\ res.description = sk.description
              /\ res.availableFiles = sk.availableFiles
              /\ res.metadata = sk.metadata
              /\ views[v].skill = sk
    /\ \A v \in 1..Len(views) :
          (~views[v].found /\ views[v].slot0 # 0
           /\ passes[views[v].slot0].state = "fulfilled") =>
              views[v].name \notin DOMAIN passes[views[v].slot0].value

\* the part that holds: a request answered from the snapshot of the module's own
\* load returns that snapshot's record, and a request refused then names no skill
\* of it
C30_InitialSnapshot ==
    /\ \A v \in Answered :
          reads[views[v].read].promise = 1 =>
              views[v].skill = SnapshotUsed(v)[views[v].name]
    /\ \A v \in 1..Len(views) :
          (~views[v].found /\ views[v].slot0 = 1) =>
              views[v].name \notin DOMAIN passes[1].value

\* what the handler does after a forced reload: a request was answered with the
\* description of the initially loaded skill and the content of the reloaded one
C30_MixedAnswer ==
    \E v \in Answered :
        /\ reads[views[v].read].promise > 1
        /\ loads[Len(loads)].force
        /\ Response(v).description # SnapshotUsed(v)[views[v].name].description
        /\ Response(v).content
               = BodyOf(disk.dirs[DirOfSkill(SnapshotUsed(v)[views[v].name])].main.text)
        /\ Response(v).content
               # BodyOf(disk.dirs[DirOfSkill(views[v].skill)].main.text)

=============================================================================
